---- MODULE Spec2Model ----
(***************************************************************************)
(* Model of the daily-devotional (QT) skill server of src/main.py:         *)
(* fetch_qt_data (one outbound fetch, region extraction, reference         *)
(* splitting, narrative composition) and get_qt (bubble segmentation and   *)
(* reply envelope).                                                        *)
(*                                                                         *)
(* Text is a sequence of Unicode code points, so Len is Python's len().    *)
(* Every literal of the source is spelled out as its code points, with     *)
(* the romanised reading in the comment next to it.                        *)
(***************************************************************************)
EXTENDS Integers, Sequences, FiniteSets, TLC

\* ------------------------------------------------------------------------
\* Bounds of the model
\* ------------------------------------------------------------------------

\* largest number of direct child blocks of the body container
MaxBlocks == 3
\* half-width of the windows of lengths enumerated around each threshold
Window == 2
\* longest title text enumerated
MaxTitleLen == 2040
\* longest single narrative block enumerated
MaxBodyLen == 2100

\* ------------------------------------------------------------------------
\* Literals of src/main.py
\* ------------------------------------------------------------------------

\* "https://sum.su.or.kr:8888/bible/today?qt_ty=QT6"
QT_URL ==
    <<104, 116, 116, 112, 115, 58, 47, 47, 115, 117, 109, 46, 115, 117, 46,
      111, 114, 46, 107, 114, 58, 56, 56, 56, 56, 47, 98, 105, 98, 108, 101,
      47, 116, 111, 100, 97, 121, 63, 113, 116, 95, 116, 121, 61, 81, 84, 54>>

\* "jemok eopseum" (no title), 5 characters
TitleDefault == <<51228, 47785, 32, 50630, 51020>>

\* "bonmun jeongbo eopseum" (no passage information), 8 characters
BibleDefault == <<48376, 47928, 32, 51221, 48372, 32, 50630, 51020>>

\* "-"
HymnDefault == <<45>>

\* "bonmun" (passage label)
LabelBible == <<48376, 47928>>

\* "chansong" (hymn label)
LabelHymn == <<52268, 49569>>

\* "ga" (optional last syllable of "chansongga")
LabelHymnGa == <<44032>>

\* "bonmun :" and "bonmun:" as removed by the fallback
LabelSpaceColon == <<48376, 47928, 32, 58>>
LabelColon == <<48376, 47928, 58>>

\* "naui jeogyong" (my application) and "gidohagi" (praying)
MarkerApply == <<45208, 51032, 32, 51201, 50857>>
MarkerPray == <<44592, 46020, 54616, 44592>>

\* open-book glyph followed by a space
Glyph == <<128214, 32>>

\* "\n\n" and "\n"
BlankLine == <<10, 10>>
NewLine == <<10>>

\* commentary placeholder when the body container is absent, 18 characters
BodyMissing ==
    <<54644, 49444, 32, 45236, 50857, 51012, 32, 48520, 47084, 50732, 32,
      49688, 32, 50630, 49845, 45768, 45796, 46>>

\* commentary placeholder when the composed narrative is blank, 34 characters
BodyEmpty ==
    <<54644, 49444, 32, 45236, 50857, 51012, 32, 52286, 51012, 32, 49688, 32,
      50630, 49845, 45768, 45796, 32, 40, 72, 84, 77, 76, 32, 44396, 51312,
      32, 48320, 44221, 32, 44032, 45733, 49457, 41, 46>>

\* the fixed apology, 27 characters
Apology ==
    <<51396, 49569, 54633, 45768, 45796, 46, 32, 53328, 54000, 32, 51221,
      48372, 47484, 32, 44032, 51256, 50724, 45716, 45936, 32, 49892, 54056,
      54664, 49845, 45768, 45796, 46>>

\* header pieces: cross "oneurui QT(sun)" cross "\n\n["
HeaderOpen ==
    <<10013, 50724, 45720, 51032, 32, 81, 84, 40, 49692, 41, 10013, 10, 10, 91>>
\* "]\nbonmun: "
HeaderBible == <<93, 10, 48376, 47928, 58, 32>>
\* "\nchansong: "
HeaderHymn == <<10, 52268, 49569, 58, 32>>

\* "\n...(naeyong deo isseum)" (more content available), 13 characters
MoreSuffix ==
    <<10, 46, 46, 46, 40, 45236, 50857, 32, 45908, 32, 51080, 51020, 41>>

\* link glyph " haeseol jeonmun bogi:\n"
FooterOpen ==
    <<128279, 32, 54644, 49444, 32, 51204, 47928, 32, 48372, 44592, 58, 10>>
\* "\n\n" star greeting star
FooterClose ==
    <<10, 10, 127775, 50500, 52840, 50640, 32, 47568, 50432, 51004, 47196, 32,
      49884, 51089, 54616, 47728, 32, 54616, 45208, 45784, 51032, 32, 51008,
      54812, 32, 52649, 47564, 51004, 47196, 32, 54616, 47336, 47484, 32,
      49884, 51089, 54644, 32, 48372, 50500, 50836, 127775>>

\* quick reply: "oneurui QT" / "message" / reload glyph " dasibogi"
QuickReply ==
    [messageText |-> <<50724, 45720, 51032, 32, 81, 84>>,
     action |-> "message",
     label |-> <<128260, 32, 45796, 49884, 48372, 44592>>]

\* first-bubble budget and second-bubble threshold / cut
BubbleBudget == 950
Part2Threshold == 1000
Part2Cut == 950

\* ------------------------------------------------------------------------
\* Python string primitives
\* ------------------------------------------------------------------------

\* characters str.strip() and the regex class \s treat as whitespace
IsSpace(c) == c \in {9, 10, 11, 12, 13, 32}

\* the regex "." : any character but a newline
IsDot(c) == c # 10

\* s[i:i+len(lit)] == lit   (i is 1-based)
HasAt(s, i, lit) ==
    /\ i >= 1
    /\ i + Len(lit) - 1 <= Len(s)
    /\ \A j \in 1..Len(lit) : s[i + j - 1] = lit[j]

\* lit in s
Contains(lit, s) == \E i \in 1..(Len(s) - Len(lit) + 1) : HasAt(s, i, lit)

\* normalisation of a slice index k against a length n
SliceIndex(k, n) ==
    IF k < 0 THEN (IF n + k < 0 THEN 0 ELSE n + k)
    ELSE (IF k > n THEN n ELSE k)

\* s[:k]
SliceTo(s, k) == SubSeq(s, 1, SliceIndex(k, Len(s)))

\* a slice s[k:] that drops the first character it should keep
SliceFromOffByOne(s, k) == SubSeq(s, SliceIndex(k, Len(s)) + 2, Len(s))

\* s[k:]
SliceFrom(s, k) == SubSeq(s, SliceIndex(k, Len(s)) + 1, Len(s))

RECURSIVE LStrip(_)
LStrip(s) ==
    IF s # <<>> /\ IsSpace(Head(s)) THEN LStrip(Tail(s)) ELSE s

RECURSIVE RStrip(_)
RStrip(s) ==
    IF s # <<>> /\ IsSpace(s[Len(s)]) THEN RStrip(SubSeq(s, 1, Len(s) - 1))
    ELSE s

\* s.strip()
Strip(s) == RStrip(LStrip(s))

\* s.replace(old, ""), old non-empty: leftmost non-overlapping occurrences
RECURSIVE Remove(_, _)
Remove(s, old) ==
    IF s = <<>> THEN <<>>
    ELSE IF HasAt(s, 1, old)
         THEN Remove(SubSeq(s, Len(old) + 1, Len(s)), old)
         ELSE <<Head(s)>> \o Remove(Tail(s), old)

\* ------------------------------------------------------------------------
\* Reference splitting (regular expression of fetch_qt_data)
\* ------------------------------------------------------------------------

\* One instruction per element of the pattern, in pattern order:
\*   lit    a literal that must match
\*   opt    an optional literal, greedy ("?")
\*   spaces \s*, greedy
\*   group  (.*?), lazy, captured as group number g
\*   end    $
Ins(op, lit, g) == [op |-> op, lit |-> lit, g |-> g]

\* bonmun\s*[:]?\s*(.*?)\s*[(]?chansong(?:ga)?\s*[:]?\s*(.*?)[)]?$
RefPattern ==
    << Ins("lit", LabelBible, 0),
       Ins("spaces", <<>>, 0),
       Ins("opt", <<58>>, 0),
       Ins("spaces", <<>>, 0),
       Ins("group", <<>>, 1),
       Ins("spaces", <<>>, 0),
       Ins("opt", <<40>>, 0),
       Ins("lit", LabelHymn, 0),
       Ins("opt", LabelHymnGa, 0),
       Ins("spaces", <<>>, 0),
       Ins("opt", <<58>>, 0),
       Ins("spaces", <<>>, 0),
       Ins("group", <<>>, 2),
       Ins("opt", <<41>>, 0),
       Ins("end", <<>>, 0) >>

NoMatch == [ok |-> FALSE, groups |-> <<>>]

\* number of whitespace characters of s starting at position i
RECURSIVE SpaceRun(_, _)
SpaceRun(s, i) ==
    IF i <= Len(s) /\ IsSpace(s[i]) THEN 1 + SpaceRun(s, i + 1) ELSE 0

\* $ : at the end of the text, or just before a final newline
AtEnd(s, i) == i = Len(s) + 1 \/ (i = Len(s) /\ s[i] = 10)

\* Backtracking matcher: the first successful way, in the priority order of
\* the regex engine, to match instructions k.. of prog at position i of s.
RECURSIVE ReMatch(_, _, _, _, _)
RECURSIVE ReGreedy(_, _, _, _, _, _)
RECURSIVE ReLazy(_, _, _, _, _, _)

ReMatch(prog, s, k, i, caps) ==
    IF k > Len(prog) THEN [ok |-> TRUE, groups |-> caps]
    ELSE LET ins == prog[k]
         IN CASE ins.op = "lit" ->
                   IF HasAt(s, i, ins.lit)
                   THEN ReMatch(prog, s, k + 1, i + Len(ins.lit), caps)
                   ELSE NoMatch
              [] ins.op = "opt" ->
                   LET taken == IF HasAt(s, i, ins.lit)
                                THEN ReMatch(prog, s, k + 1, i + Len(ins.lit), caps)
                                ELSE NoMatch
                   IN IF taken.ok THEN taken
                      ELSE ReMatch(prog, s, k + 1, i, caps)
              [] ins.op = "spaces" ->
                   ReGreedy(prog, s, k, i, SpaceRun(s, i), caps)
              [] ins.op = "group" ->
                   ReLazy(prog, s, k, i, 0, caps)
              [] ins.op = "end" ->
                   IF AtEnd(s, i) THEN ReMatch(prog, s, k + 1, i, caps)
                   ELSE NoMatch

\* greedy repetition: longest run first, then shorter ones
ReGreedy(prog, s, k, i, n, caps) ==
    LET r == ReMatch(prog, s, k + 1, i + n, caps)
    IN IF r.ok THEN r
       ELSE IF n = 0 THEN NoMatch
       ELSE ReGreedy(prog, s, k, i, n - 1, caps)

\* lazy captured repetition: shortest run first, then longer ones
ReLazy(prog, s, k, i, n, caps) ==
    LET r == ReMatch(prog, s, k + 1, i + n,
                     [caps EXCEPT ![prog[k].g] = SubSeq(s, i, i + n - 1)])
    IN IF r.ok THEN r
       ELSE IF i + n <= Len(s) /\ IsDot(s[i + n])
            THEN ReLazy(prog, s, k, i, n + 1, caps)
            ELSE NoMatch

\* re.search: the match at the leftmost start position that has one
RECURSIVE ReSearchFrom(_, _, _)
ReSearchFrom(prog, s, i) ==
    IF i > Len(s) + 1 THEN NoMatch
    ELSE LET r == ReMatch(prog, s, 1, i, <<<<>>, <<>>>>)
         IN IF r.ok THEN r ELSE ReSearchFrom(prog, s, i + 1)

ReSearch(prog, s) == ReSearchFrom(prog, s, 1)

\* the else branch: remove "bonmun :" and "bonmun:", then strip
Fallback(raw_info) == Strip(Remove(Remove(raw_info, LabelSpaceColon), LabelColon))

\* bible_range and hymn_text computed from raw_info
SplitReference(raw_info) ==
    LET match == ReSearch(RefPattern, raw_info)
    IN IF match.ok
       THEN [bible_range |-> Strip(match.groups[1]),
             hymn_text |-> Strip(match.groups[2])]
       ELSE [bible_range |-> Fallback(raw_info),
             hymn_text |-> HymnDefault]

\* ------------------------------------------------------------------------
\* Narrative composition
\* ------------------------------------------------------------------------

HasMarker(text) == Contains(MarkerApply, text) \/ Contains(MarkerPray, text)

\* a subheading step that never leaves the skipped section again
StepStickySkip(st, child) ==
    IF child.text = <<>> THEN st
    ELSE IF "b_text" \in child.classes
         THEN [st EXCEPT !.commentary_text = @ \o child.text \o BlankLine]
    ELSE IF "g_text" \in child.classes
         THEN IF HasMarker(child.text) \/ st.skip_section
              THEN [st EXCEPT !.skip_section = TRUE]
              ELSE [st EXCEPT !.commentary_text = @ \o Glyph \o child.text \o NewLine]
    ELSE IF "text" \in child.classes
         THEN IF ~st.skip_section
              THEN [st EXCEPT !.commentary_text = @ \o child.text \o BlankLine]
              ELSE st
    ELSE st

\* one iteration of the loop over the direct child blocks
Step(st, child) ==
    IF child.text = <<>> THEN st
    ELSE IF "b_text" \in child.classes
         THEN [st EXCEPT !.commentary_text = @ \o child.text \o BlankLine]
    ELSE IF "g_text" \in child.classes
         THEN IF HasMarker(child.text)
              THEN [st EXCEPT !.skip_section = TRUE]
              ELSE [st EXCEPT !.skip_section = FALSE,
                              !.commentary_text = @ \o Glyph \o child.text \o NewLine]
    ELSE IF "text" \in child.classes
         THEN IF ~st.skip_section
              THEN [st EXCEPT !.commentary_text = @ \o child.text \o BlankLine]
              ELSE st
    ELSE st

RECURSIVE Loop(_, _, _)
Loop(children, i, st) ==
    IF i > Len(children) THEN st
    ELSE Loop(children, i + 1, Step(st, children[i]))

\* commentary_text of a page
Compose(has_body, children) ==
    LET composed == IF has_body
                    THEN Loop(children, 1,
                              [skip_section |-> FALSE, commentary_text |-> <<>>]).commentary_text
                    ELSE BodyMissing
    IN IF Strip(composed) = <<>> THEN BodyEmpty ELSE composed

\* ------------------------------------------------------------------------
\* Reply construction (get_qt)
\* ------------------------------------------------------------------------

None == [none |-> TRUE]

Bubble(text) == [simpleText |-> [text |-> text]]

\* header = f"...[{title}]\nbonmun: {bible_range}\nchansong: {hymn}\n\n"
Header(qt) ==
    HeaderOpen \o qt.title \o HeaderBible \o qt.bible_range
               \o HeaderHymn \o qt.hymn \o BlankLine

\* a trailer that leaves the link out
FooterMsgNoUrl(qt) == FooterOpen \o FooterClose

\* footer_msg
FooterMsg(qt) == FooterOpen \o qt.url \o FooterClose

\* a cut that already truncates a remainder of exactly the threshold
CutInclusive(part_2) ==
    IF Len(part_2) >= Part2Threshold
    THEN SliceTo(part_2, Part2Cut) \o MoreSuffix
    ELSE part_2

\* the text of the second bubble for a non-empty part_2
Cut(part_2) ==
    IF Len(part_2) > Part2Threshold
    THEN SliceTo(part_2, Part2Cut) \o MoreSuffix
    ELSE part_2

\* the outputs list of the success path
Outputs(qt) ==
    LET header == Header(qt)
        full_commentary == qt.commentary
        limit_len == BubbleBudget - Len(header)
        part_1 == SliceTo(full_commentary, limit_len)
        part_2 == SliceFrom(full_commentary, limit_len)
    IN <<Bubble(header \o part_1)>>
       \o (IF part_2 # <<>> THEN <<Bubble(Cut(part_2))>> ELSE <<>>)
       \o <<Bubble(FooterMsg(qt))>>

\* a failure reply that also carries the trailer
FailureContentWithTrailer ==
    [version |-> "2.0",
     template |-> [outputs |-> <<Bubble(Apology), Bubble(FooterOpen \o QT_URL \o FooterClose)>>]]

\* the reply body of the failure path
FailureContent ==
    [version |-> "2.0",
     template |-> [outputs |-> <<Bubble(Apology)>>]]

\* the reply body of the success path
SuccessContent(qt) ==
    [version |-> "2.0",
     template |-> [outputs |-> Outputs(qt),
                   quickReplies |-> <<QuickReply>>]]

\* JSONResponse(content=...) : status code 200 unless told otherwise
JSONResponse(content) == [status_code |-> 200, content |-> content]

\* ------------------------------------------------------------------------
\* Pages the upstream site can answer with
\* ------------------------------------------------------------------------

Block(classes, text) == [classes |-> classes, text |-> text]

Page(has_title, title, has_info, info, has_body, children, gen) ==
    [has_title |-> has_title, title |-> title,
     has_info |-> has_info, info |-> info,
     has_body |-> has_body, children |-> children, gen |-> gen]

\* how a page was generated; never read by the program
Gen(kind, x, y) == [kind |-> kind, x |-> x, y |-> y]

NoPage == Page(FALSE, <<>>, FALSE, <<>>, FALSE, <<>>, Gen("none", <<>>, <<>>))

\* a text of n characters, cycling through seven letters
Letters(n) == SubSeq([i \in 1..n |-> 97 + (i % 7)], 1, n)

ShortTitle == <<84>>
ShortChildren == <<Block({"text"}, <<120>>)>>

\* --- reference regions of the shape "bonmun : X (chansong : Y)" ---
Spaces == {<<>>, <<32>>}
Colons == {<<>>, <<58>>}
\* "1", "1:2", "1 2", "(1)"
PayloadsX == {<<49>>, <<49, 58, 50>>, <<49, 32, 50>>, <<40, 49, 41>>}
\* "3", "3 4", "3(4)", "(3)4"
PayloadsY == {<<51>>, <<51, 32, 52>>, <<51, 40, 52, 41>>, <<40, 51, 41, 52>>}

HasParen(s) == \E i \in 1..Len(s) : s[i] \in {40, 41}

\* The enclosing parentheses are each optional; a hymn text with parentheses
\* of its own is enclosed by both or by none, so that every generated text
\* reads as the shape in one way only.
Enclosures ==
    { e \in {<<>>, <<40>>} \X {<<>>, <<41>>} \X PayloadsY :
        HasParen(e[3]) => ((e[1] = <<>>) <=> (e[2] = <<>>)) }

ShapePages ==
    { Page(TRUE, ShortTitle, TRUE,
           LabelBible \o w[1] \o c[1] \o w[2] \o x \o w[3] \o e[1]
                      \o LabelHymn \o ga \o w[4] \o c[2] \o w[5] \o e[3] \o e[2],
           TRUE, ShortChildren, Gen("shape", x, e[3])) :
        w \in [1..5 -> Spaces], c \in [1..2 -> Colons],
        x \in PayloadsX, e \in Enclosures, ga \in {<<>>, LabelHymnGa} }

\* --- reference regions without a hymn label ---
\* "", "bonmun", "bonmun ", "bonmun:", "bonmun :", "bonmun: ", "bonmun  :  "
PlainLabels ==
    {<<>>, LabelBible, LabelBible \o <<32>>, LabelColon, LabelSpaceColon,
     LabelColon \o <<32>>, LabelSpaceColon \o <<32>>,
     LabelBible \o <<32, 32, 58, 32, 32>>}
\* "", "1", "1:2", "1 2"
PlainRests == {<<>>, <<49>>, <<49, 58, 50>>, <<49, 32, 50>>}

PlainPages ==
    { Page(TRUE, ShortTitle, TRUE, l \o r, TRUE, ShortChildren,
           Gen("plain", r, <<>>)) :
        l \in PlainLabels, r \in PlainRests }

\* --- pages with a region missing ---
\* "bonmun : 1 (chansong : 3)"
ShortInfo == LabelSpaceColon \o <<32, 49, 32, 40>> \o LabelHymn \o <<32, 58, 32, 51, 41>>

MissingPages ==
    { Page(t, IF t THEN ShortTitle ELSE <<>>,
           i, IF i THEN ShortInfo ELSE <<>>,
           b, IF b THEN ShortChildren ELSE <<>>,
           Gen("missing", <<>>, <<>>)) :
        t \in BOOLEAN, i \in BOOLEAN, b \in BOOLEAN }

\* --- body containers with up to MaxBlocks child blocks ---
ClassSets == {{"b_text"}, {"g_text"}, {"text"}, {"box"}}
\* "", "x", "naui jeogyong", "y gidohagi"
TextBases == {<<>>, <<120>>, MarkerApply, <<121>> \o MarkerPray}

\* the text of the i-th block ends with the digit i
Numbered(base, i) == IF base = <<>> THEN <<>> ELSE base \o <<48 + i>>

BlockPages ==
    { Page(TRUE, ShortTitle, FALSE, <<>>, TRUE,
           [i \in 1..n |-> Block(k[i][1], Numbered(k[i][2], i))],
           Gen("blocks", <<>>, <<>>)) :
        k \in [1..MaxBlocks -> ClassSets \X TextBases], n \in 0..MaxBlocks }

\* --- long titles and long narratives around the thresholds ---
Near(x, c) == x >= c - Window /\ x <= c + Window

\* header length of a page with a title of t characters and no reference region
HeaderLen(t) ==
    Len(Header([title |-> <<>>, bible_range |-> <<>>, hymn |-> HymnDefault])) + t

TitleLens ==
    { t \in 1..MaxTitleLen :
        \/ t <= 2
        \/ Near(HeaderLen(t), BubbleBudget)
        \/ Near(HeaderLen(t), BubbleBudget + Part2Threshold)
        \/ t = MaxTitleLen }

\* lengths n of a single body block; the narrative is then n + 2 long
BodyLens ==
    { n \in 1..MaxBodyLen :
        \/ n <= 2
        \/ Near(n + 2 + HeaderLen(2), BubbleBudget)
        \/ Near(n + 2, Part2Threshold)
        \/ Near(n + 2 + HeaderLen(2), BubbleBudget + Part2Threshold)
        \/ n = MaxBodyLen }

LengthPages ==
    { Page(TRUE, Letters(t), FALSE, <<>>, TRUE, <<Block({"text"}, Letters(n))>>,
           Gen("length", <<>>, <<>>)) :
        t \in TitleLens, n \in BodyLens }

Pages == ShapePages \cup PlainPages \cup MissingPages \cup BlockPages \cup LengthPages

\* ways the fetch itself fails: client.get raises, or raise_for_status raises
FetchErrors == {"network", "timeout", "status"}

\* ------------------------------------------------------------------------
\* State and steps of one request
\* ------------------------------------------------------------------------

VARIABLES pc, fetches, log, page, title_text, bible_range, hymn_text, qt_data, response

vars == <<pc, fetches, log, page, title_text, bible_range, hymn_text, qt_data, response>>

Init ==
    /\ pc = "start"
    /\ fetches = 0
    /\ log = <<>>
    /\ page = NoPage
    /\ title_text = <<>>
    /\ bible_range = <<>>
    /\ hymn_text = <<>>
    /\ qt_data = None
    /\ response = None

\* client.get or raise_for_status raises: except branch, logged, return None
FetchFail ==
    /\ pc = "start"
    /\ \E e \in FetchErrors :
        /\ fetches' = fetches + 1
        /\ log' = Append(log, e)
        /\ qt_data' = None
        /\ pc' = "returned"
    /\ UNCHANGED <<page, title_text, bible_range, hymn_text, response>>

\* the fetch answers with a page
FetchOk ==
    /\ pc = "start"
    /\ \E p \in Pages :
        /\ page' = p
        /\ fetches' = fetches + 1
        /\ pc' = "parsing"
    /\ UNCHANGED <<log, title_text, bible_range, hymn_text, qt_data, response>>

\* an exception while parsing: except branch, logged, return None
ParseFail ==
    /\ pc = "parsing"
    /\ log' = Append(log, "parse")
    /\ qt_data' = None
    /\ pc' = "returned"
    /\ UNCHANGED <<fetches, page, title_text, bible_range, hymn_text, response>>

\* title and reference extraction
Extract ==
    /\ pc = "parsing"
    /\ LET raw_info == IF page.has_info THEN page.info ELSE <<>>
           ref == SplitReference(raw_info)
       IN /\ title_text' = IF page.has_title THEN page.title ELSE TitleDefault
          /\ bible_range' = ref.bible_range
          /\ hymn_text' = ref.hymn_text
    /\ pc' = "composing"
    /\ UNCHANGED <<fetches, log, page, qt_data, response>>

\* narrative composition and the returned record
ComposeAndReturn ==
    /\ pc = "composing"
    /\ qt_data' = [title |-> title_text,
                   bible_range |-> bible_range,
                   hymn |-> hymn_text,
                   commentary |-> Compose(page.has_body, page.children),
                   url |-> QT_URL]
    /\ pc' = "returned"
    /\ UNCHANGED <<fetches, log, page, title_text, bible_range, hymn_text, response>>

\* get_qt, "if not qt_data" branch
ReplyFailure ==
    /\ pc = "returned"
    /\ qt_data = None
    /\ response' = JSONResponse(FailureContent)
    /\ pc' = "done"
    /\ UNCHANGED <<fetches, log, page, title_text, bible_range, hymn_text, qt_data>>

\* get_qt, success path
ReplySuccess ==
    /\ pc = "returned"
    /\ qt_data # None
    /\ response' = JSONResponse(SuccessContent(qt_data))
    /\ pc' = "done"
    /\ UNCHANGED <<fetches, log, page, title_text, bible_range, hymn_text, qt_data>>

Next ==
    \/ FetchFail
    \/ FetchOk
    \/ ParseFail
    \/ Extract
    \/ ComposeAndReturn
    \/ ReplyFailure
    \/ ReplySuccess

Spec == Init /\ [][Next]_vars

\* ------------------------------------------------------------------------
\* Vocabulary of the properties
\* ------------------------------------------------------------------------

Replied == pc = "done"
Succeeded == pc = "done" /\ qt_data # None
Failed == pc = "done" /\ qt_data = None

ReplyOutputs == response.content.template.outputs
BubbleCount == Len(ReplyOutputs)
BubbleText(i) == ReplyOutputs[i].simpleText.text

\* H and L of a successful request
HLen == Len(Header(qt_data))
LLen == Len(qt_data.commentary)

\* bubble 1 without the header, and the narrative it leaves over
FirstBody == SubSeq(BubbleText(1), HLen + 1, Len(BubbleText(1)))
Remainder == SubSeq(qt_data.commentary, Len(FirstBody) + 1, LLen)
\* the content bubble after bubble 1, empty when there is none
SecondText == IF BubbleCount = 3 THEN BubbleText(2) ELSE <<>>

\* child blocks of the fetched page
Children == page.children
Visible == {j \in 1..Len(Children) : Children[j].text # <<>>}
Role(j) ==
    IF "b_text" \in Children[j].classes THEN "intro"
    ELSE IF "g_text" \in Children[j].classes THEN "subheading"
    ELSE IF "text" \in Children[j].classes THEN "body"
    ELSE "none"
Included(j) == Contains(Children[j].text, qt_data.commentary)
Marked(j) == HasMarker(Children[j].text)
Subheadings == {j \in Visible : "g_text" \in Children[j].classes}
\* j lies after block i and before the next subheading block
InSectionOf(i, j) == i < j /\ \A m \in Subheadings : ~(i < m /\ m <= j)
\* the subheadings (as the loop classifies them) before block j
HeadingsBefore(j) == {m \in Visible : m < j /\ Role(m) = "subheading"}
LastHeadingBefore(j) == CHOOSE m \in HeadingsBefore(j) : \A o \in HeadingsBefore(j) : o <= m

\* ------------------------------------------------------------------------
\* Properties
\* ------------------------------------------------------------------------

\* C1: in every reply built from a successful fetch, whatever the lengths of
\* the header and of the narrative, the first bubble has at most 950
\* characters.
C1_FirstBubbleWithinBudget ==
    Succeeded => Len(BubbleText(1)) <= BubbleBudget

\* C2: when header and narrative together exceed 950 characters there is a
\* second content bubble, it is non-empty, it is exactly the narrative not
\* placed in bubble 1 if that remainder has at most 1000 characters, and the
\* first 950 characters of the remainder followed by the suffix otherwise;
\* when they fit in 950 characters there is no second content bubble.
C2_SecondBubble ==
    Succeeded =>
        IF LLen + HLen > BubbleBudget
        THEN /\ BubbleCount = 3
             /\ BubbleText(2) # <<>>
             /\ Len(Remainder) <= Part2Threshold => BubbleText(2) = Remainder
             /\ Len(Remainder) > Part2Threshold =>
                    BubbleText(2) = SubSeq(Remainder, 1, Part2Cut) \o MoreSuffix
        ELSE BubbleCount = 2

\* a reply whose second bubble is a truncated remainder
C2_Witness ==
    /\ Succeeded
    /\ LLen + HLen > BubbleBudget
    /\ Len(Remainder) > Part2Threshold
    /\ BubbleCount = 3
    /\ Len(BubbleText(2)) = Part2Cut + Len(MoreSuffix)

\* C3: in every reply built from a successful fetch the trailer is the last
\* bubble, one or two content bubbles precede it (2 or 3 bubbles in all), and
\* its text contains QT_URL.
C3_TrailerLast ==
    Succeeded =>
        /\ BubbleCount \in {2, 3}
        /\ HasAt(BubbleText(1), 1, HeaderOpen)
        /\ HasAt(BubbleText(BubbleCount), 1, FooterOpen)
        /\ Contains(QT_URL, BubbleText(BubbleCount))
        /\ \A i \in 1..(BubbleCount - 1) : ~HasAt(BubbleText(i), 1, FooterOpen)

\* a three-bubble reply that ends with the trailer
C3_Witness ==
    /\ Succeeded
    /\ BubbleCount = 3
    /\ Contains(QT_URL, BubbleText(3))

\* C4: once the fetch of a request has failed (an error was logged), there
\* has been exactly one fetch, fetch_qt_data returns None, and the reply is
\* HTTP 200 with the apology as its only bubble.
C4_FailureReply ==
    /\ fetches <= 1
    /\ log # <<>> =>
        /\ fetches = 1
        /\ Len(log) = 1
        /\ pc \in {"returned", "done"}
        /\ qt_data = None
        /\ pc = "done" =>
            /\ response.status_code = 200
            /\ BubbleCount = 1
            /\ BubbleText(1) = Apology

\* a timed-out fetch answered with the apology
C4_Witness ==
    /\ Failed
    /\ log = <<"timeout">>
    /\ ReplyOutputs = <<Bubble(Apology)>>

\* C5 as stated: a block of any role whose text contains a marker is omitted,
\* and so is every block after it up to the next subheading block.
C5_AnyRoleOmitted ==
    (Succeeded /\ page.has_body) =>
        \A i \in Visible :
            Marked(i) =>
                /\ ~Included(i)
                /\ \A j \in Visible : InSectionOf(i, j) => ~Included(j)

\* C5 amended: a subheading with a marker is omitted together with the body
\* blocks after it up to the next subheading; every other subheading and body
\* block is included, every intro block is included, and a block of no role
\* is not.
C5_SubheadingSection ==
    (Succeeded /\ page.has_body) =>
        \A j \in Visible :
            Included(j) <=>
                CASE Role(j) = "intro" -> TRUE
                  [] Role(j) = "subheading" -> ~Marked(j)
                  [] Role(j) = "body" ->
                        \/ HeadingsBefore(j) = {}
                        \/ ~Marked(LastHeadingBefore(j))
                  [] OTHER -> FALSE

\* a marked subheading, an omitted body block in its section, and an intro
\* block in the same section that is included
C5_Witness ==
    /\ Succeeded
    /\ page.has_body
    /\ \E i, j, k \in Visible :
        /\ Role(i) = "subheading" /\ Marked(i) /\ ~Included(i)
        /\ Role(j) = "body" /\ InSectionOf(i, j) /\ ~Included(j)
        /\ Role(k) = "intro" /\ InSectionOf(i, k) /\ Included(k)

\* C6: for a reference region of the shape "bonmun : X (chansong : Y)" the
\* record has bible_range = X and hymn = Y (X and Y stripped, without label,
\* label colon or enclosing parenthesis).
C6_ShapeSplit ==
    (Succeeded /\ page.gen.kind = "shape") =>
        /\ qt_data.bible_range = page.gen.x
        /\ qt_data.hymn = page.gen.y

\* C7: for a reference region without the hymn pattern, hymn stays "-" and
\* bible_range is the text after the label "bonmun", its optional colon and
\* the whitespace around it.
C7_FallbackStripsLabel ==
    (Succeeded /\ page.gen.kind = "plain") =>
        /\ qt_data.hymn = HymnDefault
        /\ qt_data.bible_range = page.gen.x

\* C8: a missing title region yields the title placeholder, and a missing
\* reference region yields the reference placeholder in the record and in the
\* header of bubble 1, never an empty string.
C8_Placeholders ==
    Succeeded =>
        /\ ~page.has_title => qt_data.title = TitleDefault
        /\ ~page.has_info =>
            /\ qt_data.bible_range = BibleDefault
            /\ HasAt(BubbleText(1), 1,
                     HeaderOpen \o qt_data.title \o HeaderBible \o BibleDefault)

\* C9: every reply, on both paths, has a version and a template that holds an
\* outputs list of simpleText bubbles and a quickReplies list with the one
\* suggestion.
C9_EnvelopeShape ==
    Replied =>
        /\ DOMAIN response.content = {"version", "template"}
        /\ DOMAIN response.content.template = {"outputs", "quickReplies"}
        /\ \A i \in 1..BubbleCount : DOMAIN ReplyOutputs[i] = {"simpleText"}
        /\ response.content.template.quickReplies = <<QuickReply>>

\* C10: bubble 1 starts with the header; when the narrative left over by
\* bubble 1 has at most 1000 characters, bubble 1 without the header followed
\* by the second bubble is the narrative; otherwise the two hold the narrative
\* up to the 950th character of the left-over, and only what follows is lost.
C10_Partition ==
    Succeeded =>
        /\ HasAt(BubbleText(1), 1, Header(qt_data))
        /\ IF Len(Remainder) <= Part2Threshold
           THEN FirstBody \o SecondText = qt_data.commentary
           ELSE /\ SecondText = SubSeq(SecondText, 1, Part2Cut) \o MoreSuffix
                /\ FirstBody \o SubSeq(SecondText, 1, Part2Cut)
                     = SubSeq(qt_data.commentary, 1, Len(FirstBody) + Part2Cut)

\* a header longer than the budget (negative slice index) with a narrative
\* split over both bubbles
C10_Witness ==
    /\ Succeeded
    /\ HLen > BubbleBudget
    /\ FirstBody # <<>>
    /\ BubbleCount = 3
    /\ FirstBody \o BubbleText(2) = qt_data.commentary

====
